---- MODULE Spec2Model ----
(***************************************************************************)
(* State-machine model of assignment01.js, the animated solar system:      *)
(* the sun, nine planets, nine moons and the star field built by           *)
(* createGeometry(), the dat.GUI callbacks of setupDatGui() and the        *)
(* render() loop driven by requestAnimationFrame.                          *)
(*                                                                         *)
(* Numbers.  JavaScript numbers are modelled in fixed point:               *)
(*   - lengths (radii, distances, coordinates) in 1/LenScale units;        *)
(*   - Math.random() results, speeds and jitters in hundredths or tenths;  *)
(*   - the phase angle of body i as an exact integer count of              *)
(*     delta / (10 * bodyOrbitTime[i]), the advance of one frame at speed  *)
(*     0.1 (the step of both speed sliders), so that the sum the code      *)
(*     accumulates in this.angle is carried without rounding;              *)
(*   - Math.cos / Math.sin by a one-degree table with linear               *)
(*     interpolation, results in 1/TrigScale.                              *)
(* Floating-point rounding of the real program is below this resolution.   *)
(***************************************************************************)
EXTENDS Integers, Sequences, FiniteSets, TLC

(***************************************************************************)
(* Bounds of the model.                                                    *)
(***************************************************************************)
MaxFrames == 3
MaxEvents == 2
NumSeeds == 2

(***************************************************************************)
(* Fixed-point resolutions.                                                *)
(***************************************************************************)
LenScale == 100
TrigScale == 10000
RandScale == 100
SpeedScale == 10

(***************************************************************************)
(* Program constants (lines 23-25, 143-234).                               *)
(***************************************************************************)
NUM_STARS == 100
RANGE_X_Z == <<-200, 200>>
RANGE_Y == <<-75, 75>>

SUN_IDX == 0
MERCURY_IDX == 1
VENUS_IDX == 2
EARTH_IDX == 3
MARS_IDX == 4
JUPITER_IDX == 5
SATURN_IDX == 6
URANUS_IDX == 7
NEPTUNE_IDX == 8
PLUTO_IDX == 9
EARTH_MOON_IDX == 10
JUPITER_MOONS_IDX == 11
SATURN_MOONS_IDX == 16

EARTH_NUM_MOONS == 1
JUPITER_NUM_MOONS == 5
SATURN_NUM_MOONS == 3

SUN_PROP == 15
MED_PLAN_PROP == 70
BIG_PLAN_PROP == 40
SML_PLAN_PROP == 150
DWF_PLAN_PROP == 300

baseRadius == 695508

\* prop * km / baseRadius, in 1/LenScale
ScaledRadius(prop, km) == (prop * km * LenScale) \div baseRadius

sunRadius == ScaledRadius(SUN_PROP, 695508)
mercuryRadius == ScaledRadius(SML_PLAN_PROP, 2440)
venusRadius == ScaledRadius(SML_PLAN_PROP, 6052)
earthRadius == ScaledRadius(SML_PLAN_PROP, 6371)
marsRadius == ScaledRadius(SML_PLAN_PROP, 3397)
jupiterRadius == ScaledRadius(BIG_PLAN_PROP, 71492)
saturnRadius == ScaledRadius(BIG_PLAN_PROP, 60268)
uranusRadius == ScaledRadius(MED_PLAN_PROP, 25559)
neptuneRadius == ScaledRadius(MED_PLAN_PROP, 24766)
plutoRadius == ScaledRadius(DWF_PLAN_PROP, 1185)
\* plutoRadius / 1.25
moonRadius == (plutoRadius * 100) \div 125
\* 0.1
starRadius == LenScale \div 10

\* SUN_PROP + 2.5, in tenths
propDist == SUN_PROP * 10 + 25
baseDist == 57900

\* propDist * km / baseDist / divisor, in 1/LenScale; the divisor in hundredths
ScaledDist(km, div100) == (((propDist * km) \div baseDist) * LenScale * 10) \div div100

mercuryDist == ScaledDist(57900, 100)
venusDist == ScaledDist(108160, 150)
earthDist == ScaledDist(149600, 150)
marsDist == ScaledDist(227937, 175)
jupterDist == ScaledDist(778369, 350)
saturnDist == ScaledDist(1427034, 450)
uranusDist == ScaledDist(2870658, 625)
neptuneDist == ScaledDist(4496976, 750)
plutoDist == ScaledDist(5906375, 825)
earthMoonDist == earthRadius + LenScale
jupiterMoonDist == jupiterRadius + LenScale
saturnMoonDist == saturnRadius + LenScale

\* Orbit times in hundredths of a day.
mercuryTime == 8800
venusTime == 22400
earthTime == 36525
marsTime == 68700
jupiterTime == 433200
saturnTime == 1059200
uranusTime == 3068100
neptuneTime == 6019300
plutoTime == 9058200
\* Moon orbit times in days (they are multiplied by a jitter in hundredths).
earthMoonTime == 28
jupiterMoonTime == 125
saturnMoonTime == 78

(***************************************************************************)
(* Math.sin and Math.cos.  The argument is an angle in hundredths of a     *)
(* degree, the result is in 1/TrigScale.                                   *)
(***************************************************************************)
SinTable ==
    <<0, 175, 349, 523, 698, 872, 1045, 1219, 1392, 1564,
      1736, 1908, 2079, 2250, 2419, 2588, 2756, 2924, 3090, 3256,
      3420, 3584, 3746, 3907, 4067, 4226, 4384, 4540, 4695, 4848,
      5000, 5150, 5299, 5446, 5592, 5736, 5878, 6018, 6157, 6293,
      6428, 6561, 6691, 6820, 6947, 7071, 7193, 7314, 7431, 7547,
      7660, 7771, 7880, 7986, 8090, 8192, 8290, 8387, 8480, 8572,
      8660, 8746, 8829, 8910, 8988, 9063, 9135, 9205, 9272, 9336,
      9397, 9455, 9511, 9563, 9613, 9659, 9703, 9744, 9781, 9816,
      9848, 9877, 9903, 9925, 9945, 9962, 9976, 9986, 9994, 9998,
      10000>>

\* sin of c hundredths of a degree for the first quadrant: the table,
\* interpolated linearly between whole degrees
SinQuadrant[c \in 0 .. 9000] ==
    LET d == c \div 100
        f == c % 100
    IN  IF f = 0 THEN SinTable[d + 1]
        ELSE SinTable[d + 1] + (((SinTable[d + 2] - SinTable[d + 1]) * f) \div 100)

\* sin of r hundredths of a degree, by quadrant
SinTurn[r \in 0 .. 35999] ==
    IF r <= 9000 THEN SinQuadrant[r]
    ELSE IF r <= 18000 THEN SinQuadrant[18000 - r]
    ELSE IF r <= 27000 THEN -SinQuadrant[r - 18000]
    ELSE -SinQuadrant[36000 - r]

MathSin(c) == SinTurn[c % 36000]

MathCos(c) == SinTurn[(c + 9000) % 36000]

(***************************************************************************)
(* Math.random().  The k-th call (k = 0, 1, ...) made while the scene is   *)
(* built returns Random(s, k) hundredths, 0 <= Random < RandScale, for the *)
(* generator state s the page was loaded with.                             *)
(***************************************************************************)
Seeds == 0 .. (NumSeeds - 1)

Random(s, k) == ((k + 1) * (37 + 24 * s) + (k \div 9) * 13 + 41 * s) % RandScale

(***************************************************************************)
(* Number of bodies of celestialBodies: the sun, 9 planets, 1 + 5 + 3      *)
(* moons, at indices 0 .. 18 in creation order; and the order in which     *)
(* constructor calls draw from Math.random().                              *)
(***************************************************************************)
NumBodies == SATURN_MOONS_IDX + SATURN_NUM_MOONS

BodyIdx == 0 .. (NumBodies - 1)
OrbitingIdx == 1 .. (NumBodies - 1)
PlanetIdx == MERCURY_IDX .. PLUTO_IDX
MoonIdx == EARTH_MOON_IDX .. (NumBodies - 1)
StarIdx == 0 .. (NUM_STARS - 1)

\* 2 * Math.PI / 360 (this.delta), in hundredths of a degree
delta == 100

(***************************************************************************)
(* class CelestialBody: constructor and createBody().  body.visible and    *)
(* material.wireframe start at the THREE.js defaults; a light exists when  *)
(* the body emits light.                                                   *)
(***************************************************************************)
CelestialBody(radius, px, py, pz, emitsLight, isStar) ==
    [radius |-> radius, px |-> px, py |-> py, pz |-> pz,
     emitsLight |-> emitsLight, isStar |-> isStar,
     light |-> emitsLight, lightVisible |-> emitsLight,
     visible |-> TRUE, wireframe |-> FALSE]

(***************************************************************************)
(* class OrbitingCelestialBody: constructor.  orbited is the orbited       *)
(* body's record as it is when the constructor runs, orbitedIdx its index  *)
(* in celestialBodies (the code holds a reference to the object).          *)
(* bodyOrbitTime is kept as the pair bodyTime / referenceOrbitTime.        *)
(* rY, rSignal, rAngle are the three Math.random() results the             *)
(* constructor draws (rY and rAngle are drawn only for a moon).            *)
(***************************************************************************)
\* one unit of this.angle, delta / (SpeedScale * bodyOrbitTime), is
\* AngleUnitNum(referenceOrbitTime) / bodyOrbitTime hundredths of a degree
AngleUnitNum(referenceOrbitTime) == (delta * referenceOrbitTime) \div SpeedScale

\* this.angle = 2 * PI * signal * random for a moon, 0 otherwise
InitialAngle(isMoon, rSignal, rAngle, referenceOrbitTime, bodyOrbitTime) ==
    IF isMoon
    THEN (IF rSignal < 50 THEN -1 ELSE 1)
         * ((((360 * delta * rAngle) \div RandScale) * bodyOrbitTime)
            \div AngleUnitNum(referenceOrbitTime))
    ELSE 0

ConstructorPx(orbitRadius, orbited) == orbitRadius + orbited.px
ConstructorPz(orbitRadius, orbited) == orbitRadius + orbited.pz

OrbitingCelestialBody(radius, orbitRadius, orbitedIdx, orbited, referenceOrbitTime, bodyOrbitTime, isMoon, rY, rSignal, rAngle) ==
    [radius |-> radius,
     px |-> ConstructorPx(orbitRadius, orbited),
     py |-> IF isMoon
            THEN (((rY - 50) * orbited.radius) \div RandScale)
                 + (2 * radius) + (LenScale \div 10)
            ELSE 0,
     pz |-> ConstructorPz(orbitRadius, orbited),
     emitsLight |-> FALSE, isStar |-> FALSE,
     light |-> FALSE, lightVisible |-> FALSE,
     visible |-> TRUE, wireframe |-> FALSE,
     orbitRadius |-> orbitRadius,
     orbitedBody |-> orbitedIdx,
     referenceOrbitTime |-> referenceOrbitTime,
     bodyOrbitTime |-> bodyOrbitTime,
     angle |-> InitialAngle(isMoon, rSignal, rAngle, referenceOrbitTime, bodyOrbitTime),
     isMoon |-> isMoon]

(***************************************************************************)
(* createGeometry(): the stars, then the sun, the planets and the moons.   *)
(***************************************************************************)
\* RANGE[i % 2] * ((-0.5 + Math.random()) * 2) + 5
StarCoord(range, i, r) ==
    ((range[(i % 2) + 1] * (2 * r - RandScale) * LenScale) \div RandScale) + (5 * LenScale)

\* the loop of lines 276-281: how many stars it creates
StarsCreated(numberOfStars) == NUM_STARS

CreateStars(s, numberOfStars) ==
    [i \in 0 .. (StarsCreated(numberOfStars) - 1) |->
        CelestialBody(starRadius,
                      StarCoord(RANGE_X_Z, i, Random(s, 3 * i)),
                      StarCoord(RANGE_Y, i, Random(s, 3 * i + 1)),
                      StarCoord(RANGE_X_Z, i, Random(s, 3 * i + 2)),
                      TRUE, TRUE)]

PlanetRadius ==
    <<mercuryRadius, venusRadius, earthRadius, marsRadius, jupiterRadius,
      saturnRadius, uranusRadius, neptuneRadius, plutoRadius>>
PlanetDist ==
    <<mercuryDist, venusDist, earthDist, marsDist, jupterDist,
      saturnDist, uranusDist, neptuneDist, plutoDist>>
PlanetTime ==
    <<mercuryTime, venusTime, earthTime, marsTime, jupiterTime,
      saturnTime, uranusTime, neptuneTime, plutoTime>>

\* index of the first Math.random() call made for the body at index i
FirstDraw(i) ==
    IF i <= PLUTO_IDX THEN 3 * NUM_STARS + (i - 1)
    ELSE IF i < JUPITER_MOONS_IDX
         THEN 3 * NUM_STARS + 9 + 3 * (i - EARTH_MOON_IDX)
    ELSE 3 * NUM_STARS + 9 + 3 * EARTH_NUM_MOONS + 5 * (i - JUPITER_MOONS_IDX)

\* the planet a moon index belongs to, by the three loops of lines 298-313
MoonParent(i) ==
    IF i < EARTH_MOON_IDX + EARTH_NUM_MOONS THEN EARTH_IDX
    ELSE IF i < JUPITER_MOONS_IDX + JUPITER_NUM_MOONS THEN JUPITER_IDX
    ELSE SATURN_IDX

RECURSIVE PushBodies(_, _, _)
\* celestialBodies.push(...) for the bodies at indices i .. NumBodies - 1
PushBodies(s, bodies, i) ==
    IF i >= NumBodies THEN bodies
    ELSE LET d == FirstDraw(i)
             new ==
               IF i = SUN_IDX
               THEN CelestialBody(sunRadius, 0, 0, 0, TRUE, FALSE)
               ELSE IF i <= PLUTO_IDX
               THEN OrbitingCelestialBody(PlanetRadius[i], PlanetDist[i], SUN_IDX,
                        bodies[SUN_IDX], mercuryTime, PlanetTime[i], FALSE,
                        0, Random(s, d), 0)
               ELSE IF MoonParent(i) = EARTH_IDX
               THEN OrbitingCelestialBody(moonRadius, earthMoonDist, EARTH_IDX,
                        bodies[EARTH_IDX], mercuryTime, earthMoonTime * 100, TRUE,
                        Random(s, d), Random(s, d + 1), Random(s, d + 2))
               ELSE LET dist == IF MoonParent(i) = JUPITER_IDX
                                THEN jupiterMoonDist ELSE saturnMoonDist
                        time == IF MoonParent(i) = JUPITER_IDX
                                THEN jupiterMoonTime ELSE saturnMoonTime
                    IN  OrbitingCelestialBody(moonRadius,
                            dist + (Random(s, d) * 75 * LenScale) \div (100 * RandScale),
                            MoonParent(i), bodies[MoonParent(i)], mercuryTime,
                            time * (((Random(s, d + 1) * 100) \div RandScale) + 75), TRUE,
                            Random(s, d + 2), Random(s, d + 3), Random(s, d + 4))
         IN  PushBodies(s, [k \in 0 .. i |-> IF k = i THEN new ELSE bodies[k]], i + 1)

createGeometry(s, numberOfStars) ==
    [stars |-> CreateStars(s, numberOfStars),
     celestialBodies |-> PushBodies(s, <<>>, 0)]

(***************************************************************************)
(* State.                                                                  *)
(*   sceneProps       the object of lines 30-35 (speeds in tenths)         *)
(*   celestialBodies  the array of the sun, the planets and the moons      *)
(*   stars            the array of stars                                   *)
(*   seed             the state Math.random() was in when the page loaded  *)
(*   redraws          number of renderer.render() calls made so far        *)
(*   pending          number of render callbacks requestAnimationFrame     *)
(*                    holds and has not run yet                            *)
(*   events           number of dat.GUI callbacks run so far               *)
(*   updatedAt        for each body, the frame (1, 2, ...) whose render()  *)
(*                    last called its updatePosition(); 0 if none has      *)
(*   parentReadAt     for each body, updatedAt of its orbited body at the  *)
(*                    moment its last updatePosition() read orbitedBody.px *)
(***************************************************************************)
VARIABLES sceneProps, celestialBodies, stars, seed, redraws, pending, events,
          updatedAt, parentReadAt

vars == <<sceneProps, celestialBodies, stars, seed, redraws, pending, events,
          updatedAt, parentReadAt>>

\* Values the speed sliders are moved to (tenths; both ranges start at 1.0).
PlanetSpeeds == {50, 250}
MoonSpeeds == {50, 100}

Init ==
    /\ seed \in Seeds
    /\ sceneProps = [showBodyMovement |-> TRUE, planetSpeed |-> 5 * SpeedScale,
                     moonSpeed |-> 5 * SpeedScale, numberOfStars |-> NUM_STARS]
    /\ celestialBodies = createGeometry(seed, sceneProps.numberOfStars).celestialBodies
    /\ stars = createGeometry(seed, sceneProps.numberOfStars).stars
    /\ redraws = 0
    /\ pending = 0
    /\ events = 0
    /\ updatedAt = [i \in BodyIdx |-> 0]
    /\ parentReadAt = [i \in BodyIdx |-> 0]

(***************************************************************************)
(* OrbitingCelestialBody.updatePosition().                                 *)
(***************************************************************************)
\* this.angle in hundredths of a degree
AngleCDeg(b) == (b.angle * AngleUnitNum(b.referenceOrbitTime)) \div b.bodyOrbitTime

\* (a bug that ignores isMoon and always takes the planet speed)
AngleStepPlanetSpeedOnly(isMoon, props) == props.planetSpeed

\* this.delta / this.bodyOrbitTime * (isMoon ? moonSpeed : planetSpeed),
\* in units of delta / (SpeedScale * bodyOrbitTime)
AngleStep(isMoon, props) ==
    IF isMoon THEN props.moonSpeed ELSE props.planetSpeed

\* (a bug that leaves out the orbited body's coordinate)
OrbitCoordNoParent(trig, orbitRadius, orbitedCoord) ==
    ((trig * orbitRadius) + (TrigScale \div 2)) \div TrigScale

\* Math.cos(angle) * orbitRadius + orbitedBody.px, likewise pz with Math.sin
\* (rounded to the nearest 1/LenScale)
OrbitCoord(trig, orbitRadius, orbitedCoord) ==
    (((trig * orbitRadius) + (TrigScale \div 2)) \div TrigScale) + orbitedCoord

\* (a bug that computes the position before advancing the angle)
updatePositionStaleAngle(b, orbited, props) ==
    [b EXCEPT !.angle = b.angle + AngleStep(b.isMoon, props),
              !.px = OrbitCoord(MathCos(AngleCDeg(b)), b.orbitRadius, orbited.px),
              !.pz = OrbitCoord(MathSin(AngleCDeg(b)), b.orbitRadius, orbited.pz)]

updatePosition(b, orbited, props) ==
    LET a == [b EXCEPT !.angle = b.angle + AngleStep(b.isMoon, props)]
    IN  [a EXCEPT !.px = OrbitCoord(MathCos(AngleCDeg(a)), a.orbitRadius, orbited.px),
                  !.pz = OrbitCoord(MathSin(AngleCDeg(a)), a.orbitRadius, orbited.pz)]

(***************************************************************************)
(* render().                                                               *)
(***************************************************************************)
\* (a bug that runs the loop from the last body down to the first)
UpdateOrderDescending(n) == [k \in 1 .. (n - 1) |-> n - k]

\* the indices the loop of lines 427-429 visits, in the order it visits them
UpdateOrder(n) == [k \in 1 .. (n - 1) |-> k]

\* (a bug that drops the test of line 426)
AdvancesAlways(props) == TRUE

\* the condition of line 426
Advances(props) == props.showBodyMovement

\* (a bug that requests the next frame inside the movement test)
FramesRequestedWhenMoving(props) == IF props.showBodyMovement THEN 1 ELSE 0

\* requestAnimationFrame calls one render() makes (line 436)
FramesRequested(props) == 1

\* the body of the loop for index i in frame `frame`: updatePosition(), with
\* the record of when it ran and of what it read
UpdateOne(st, i, frame, props) ==
    LET b == st.bodies[i]
    IN  [bodies |-> [st.bodies EXCEPT
                        ![i] = updatePosition(b, st.bodies[b.orbitedBody], props)],
         updatedAt |-> [st.updatedAt EXCEPT ![i] = frame],
         parentReadAt |-> [st.parentReadAt EXCEPT ![i] = st.updatedAt[b.orbitedBody]]]

RECURSIVE UpdateAll(_, _, _, _, _)
\* the loop from the k-th index of order on; st = [bodies, updatedAt,
\* parentReadAt].  (The singleton sets make TLC compute each intermediate
\* array once.)
UpdateAll(st, order, k, frame, props) ==
    IF k > Len(order) THEN st
    ELSE CHOOSE r \in {UpdateAll(UpdateOne(s, i, frame, props), order, j, frame, props) :
                          s \in {st}, i \in {order[k]}, j \in {k + 1}} : TRUE

\* render() called with `consumed` of the pending callbacks used up
render(consumed) ==
    /\ redraws' = redraws + 1
    /\ pending' = (pending - consumed) + FramesRequested(sceneProps)
    /\ UNCHANGED <<sceneProps, stars, seed, events>>
    /\ \E after \in {IF Advances(sceneProps)
                     THEN UpdateAll([bodies |-> celestialBodies, updatedAt |-> updatedAt,
                                     parentReadAt |-> parentReadAt],
                                    UpdateOrder(NumBodies), 1, redraws + 1, sceneProps)
                     ELSE [bodies |-> celestialBodies, updatedAt |-> updatedAt,
                           parentReadAt |-> parentReadAt]} :
           /\ celestialBodies' = after.bodies
           /\ updatedAt' = after.updatedAt
           /\ parentReadAt' = after.parentReadAt

\* window.onload: init(), setupCameraAndLight(), createGeometry() and
\* setupDatGui() have built the initial state; its last statement is render()
OnLoad ==
    /\ redraws = 0
    /\ render(0)

\* the browser runs a callback requestAnimationFrame holds
AnimationFrame ==
    /\ redraws >= 1
    /\ redraws < MaxFrames
    /\ pending >= 1
    /\ render(1)

(***************************************************************************)
(* setupDatGui(): the onChange callbacks.  They run between frames, once   *)
(* the page has loaded.                                                    *)
(***************************************************************************)
GuiReady ==
    /\ redraws >= 1
    /\ events < MaxEvents
    /\ events' = events + 1

MoveBodies ==
    /\ GuiReady
    /\ \E move \in BOOLEAN :
           sceneProps' = [sceneProps EXCEPT !.showBodyMovement = move]
    /\ UNCHANGED <<celestialBodies, stars, seed, redraws, pending, updatedAt, parentReadAt>>

PlanetsSpeed ==
    /\ GuiReady
    /\ \E speed \in PlanetSpeeds :
           sceneProps' = [sceneProps EXCEPT !.planetSpeed = speed]
    /\ UNCHANGED <<celestialBodies, stars, seed, redraws, pending, updatedAt, parentReadAt>>

MoonsSpeed ==
    /\ GuiReady
    /\ \E speed \in MoonSpeeds :
           sceneProps' = [sceneProps EXCEPT !.moonSpeed = speed]
    /\ UNCHANGED <<celestialBodies, stars, seed, redraws, pending, updatedAt, parentReadAt>>

\* celestialBodies[i].body.visible = visible for the indices of targets
SetVisible(targets, visible) ==
    /\ celestialBodies' = [i \in BodyIdx |->
                              IF i \in targets
                              THEN [celestialBodies[i] EXCEPT !.visible = visible]
                              ELSE celestialBodies[i]]
    /\ UNCHANGED <<sceneProps, stars, seed, redraws, pending, updatedAt, parentReadAt>>

\* (a bug that stops the loop one moon early)
MoonLoopOffByOne(first, count) == first .. (first + count - 2)

\* the indices a loop  for (i = first; i < first + count; i++)  visits
MoonLoop(first, count) == first .. (first + count - 1)

ShowMercury == GuiReady /\ \E visible \in BOOLEAN : SetVisible({MERCURY_IDX}, visible)
ShowVenus == GuiReady /\ \E visible \in BOOLEAN : SetVisible({VENUS_IDX}, visible)
ShowEarth ==
    GuiReady /\ \E visible \in BOOLEAN : SetVisible({EARTH_IDX, EARTH_MOON_IDX}, visible)
ShowMars == GuiReady /\ \E visible \in BOOLEAN : SetVisible({MARS_IDX}, visible)
ShowJupiter ==
    GuiReady /\ \E visible \in BOOLEAN :
        SetVisible({JUPITER_IDX} \cup MoonLoop(JUPITER_MOONS_IDX, JUPITER_NUM_MOONS), visible)
ShowSaturn ==
    GuiReady /\ \E visible \in BOOLEAN :
        SetVisible({SATURN_IDX} \cup MoonLoop(SATURN_MOONS_IDX, SATURN_NUM_MOONS), visible)
ShowUranus == GuiReady /\ \E visible \in BOOLEAN : SetVisible({URANUS_IDX}, visible)
ShowNeptune == GuiReady /\ \E visible \in BOOLEAN : SetVisible({NEPTUNE_IDX}, visible)
ShowPluto == GuiReady /\ \E visible \in BOOLEAN : SetVisible({PLUTO_IDX}, visible)

ShowStars ==
    /\ GuiReady
    /\ \E visible \in BOOLEAN :
           stars' = [i \in DOMAIN stars |->
                        IF i < NUM_STARS
                        THEN [stars[i] EXCEPT !.visible = visible, !.lightVisible = visible]
                        ELSE stars[i]]
    /\ UNCHANGED <<sceneProps, celestialBodies, seed, redraws, pending, updatedAt, parentReadAt>>

\* for (body of celestialBodies) body.material.wireframe = wireframe
Wireframe ==
    /\ GuiReady
    /\ \E wireframe \in BOOLEAN :
           celestialBodies' = [i \in BodyIdx |->
                                  [celestialBodies[i] EXCEPT !.wireframe = wireframe]]
    /\ UNCHANGED <<sceneProps, stars, seed, redraws, pending, updatedAt, parentReadAt>>

Next ==
    \/ OnLoad
    \/ AnimationFrame
    \/ MoveBodies
    \/ PlanetsSpeed
    \/ MoonsSpeed
    \/ ShowMercury
    \/ ShowVenus
    \/ ShowEarth
    \/ ShowMars
    \/ ShowJupiter
    \/ ShowSaturn
    \/ ShowUranus
    \/ ShowNeptune
    \/ ShowPluto
    \/ ShowStars
    \/ Wireframe

Spec == Init /\ [][Next]_vars

\* The host scheduler runs every requested frame and the page's load handler.
LiveSpec == Spec /\ WF_vars(OnLoad) /\ WF_vars(AnimationFrame)

(***************************************************************************)
(* Properties.                                                             *)
(***************************************************************************)
Position(b) == <<b.px, b.py, b.pz>>

\* the scene as createGeometry() built it
InitialBodies == createGeometry(seed, NUM_STARS).celestialBodies

Moved(i) == updatedAt[i] >= 1

\* C1: while sceneProps.showBodyMovement is false, no step (a frame or a
\* control callback, the speed sliders included) changes the position or the
\* phase angle of any body or star; they change only in a frame that runs
\* with movement enabled.
C1_FrozenWhileDisabled ==
    [][~sceneProps.showBodyMovement =>
          /\ \A i \in BodyIdx :
                /\ Position(celestialBodies'[i]) = Position(celestialBodies[i])
                /\ i \in OrbitingIdx => celestialBodies'[i].angle = celestialBodies[i].angle
          /\ \A i \in DOMAIN stars : Position(stars'[i]) = Position(stars[i])]_vars

\* two frames have run with movement disabled and a changed planet speed
C1_Witness ==
    /\ ~sceneProps.showBodyMovement
    /\ sceneProps.planetSpeed = 250
    /\ redraws = 3
    /\ updatedAt[MERCURY_IDX] = 1

\* C2: every moon's mesh visibility equals its planet's, and a step that
\* changes visibility changes it on one planet and on exactly the moons
\* orbiting that planet, all to the same value.
C2_MoonsFollowPlanet ==
    /\ [](\A m \in MoonIdx :
             celestialBodies[m].visible
                 = celestialBodies[celestialBodies[m].orbitedBody].visible)
    /\ [][LET changed == {i \in BodyIdx :
                             celestialBodies'[i].visible # celestialBodies[i].visible}
          IN  changed # {} =>
                 \E p \in PlanetIdx, v \in BOOLEAN :
                     /\ changed \subseteq
                            ({p} \cup {m \in MoonIdx : celestialBodies[m].orbitedBody = p})
                     /\ \A i \in {p} \cup {m \in MoonIdx : celestialBodies[m].orbitedBody = p} :
                            celestialBodies'[i].visible = v]_vars

\* Jupiter and its five moons are hidden, Saturn and its moons are not
C2_Witness ==
    /\ ~celestialBodies[JUPITER_IDX].visible
    /\ Cardinality({m \in MoonIdx : celestialBodies[m].orbitedBody = JUPITER_IDX
                                      /\ ~celestialBodies[m].visible}) = 5
    /\ celestialBodies[SATURN_IDX].visible
    /\ Cardinality({m \in MoonIdx : celestialBodies[m].visible}) = 4

\* C3: every orbiting body's orbited body has a lower index, and whenever a
\* moon's updatePosition() read its planet's position, the planet had already
\* been updated in that same frame.
C3_ParentUpdatedFirst ==
    /\ \A i \in OrbitingIdx : celestialBodies[i].orbitedBody < i
    /\ \A m \in MoonIdx : Moved(m) => parentReadAt[m] = updatedAt[m]

\* a second moving frame has updated Saturn's last moon
C3_Witness ==
    /\ redraws = 2
    /\ updatedAt[NumBodies - 1] = 2
    /\ parentReadAt[NumBodies - 1] = 2

\* the resolution of the fixed-point arithmetic at radius r: two units of
\* 1/LenScale for the rounding of the two coordinates, and r / 5000 for the
\* cosine and sine table (two units of 1/TrigScale)
DistTol(r) == 2 + (r \div 5000)

\* |sqrt(sq) - r| <= DistTol(r)
WithinTol(sq, r) ==
    /\ (r - DistTol(r)) * (r - DistTol(r)) <= sq
    /\ sq <= (r + DistTol(r)) * (r + DistTol(r))

HorizontalSq(i) ==
    LET b == celestialBodies[i]
        o == celestialBodies[b.orbitedBody]
    IN  (b.px - o.px) * (b.px - o.px) + (b.pz - o.pz) * (b.pz - o.pz)

VerticalSq(i) ==
    LET b == celestialBodies[i]
        o == celestialBodies[b.orbitedBody]
    IN  (b.py - o.py) * (b.py - o.py)

\* C4 as stated: after updatePosition() the distance in space between a body
\* and its orbited body equals orbitRadius, for planets and moons.
C4_Distance3D ==
    \A i \in OrbitingIdx :
        Moved(i) => WithinTol(HorizontalSq(i) + VerticalSq(i), celestialBodies[i].orbitRadius)

\* C4 amended: after updatePosition() the horizontal (x, z) distance between
\* a body and its orbited body equals orbitRadius, and the distance in space
\* does for the planets, whose y is the sun's.
C4_DistanceHorizontal ==
    \A i \in OrbitingIdx :
        Moved(i) =>
            /\ WithinTol(HorizontalSq(i), celestialBodies[i].orbitRadius)
            /\ i \in PlanetIdx =>
                   WithinTol(HorizontalSq(i) + VerticalSq(i), celestialBodies[i].orbitRadius)

\* frames have run at planet speed 25 and moon speed 10
C4_Witness ==
    /\ sceneProps.planetSpeed = 250
    /\ sceneProps.moonSpeed = 100
    /\ sceneProps.showBodyMovement
    /\ redraws >= 2
    /\ updatedAt[PLUTO_IDX] = redraws

\* C5: before any updatePosition() call, a planet of orbit radius D around
\* the sun at the origin is at (D, 0, 0).
C5_InitialPosition ==
    \A p \in PlanetIdx :
        ~Moved(p) => Position(celestialBodies[p]) = <<celestialBodies[p].orbitRadius, 0, 0>>

\* C6: the scene holds sceneProps.numberOfStars stars, each with a point
\* light and a position inside RANGE_X_Z x RANGE_Y x RANGE_X_Z.
C6_Stars ==
    /\ Cardinality(DOMAIN stars) = sceneProps.numberOfStars
    /\ \A i \in DOMAIN stars :
          /\ stars[i].light
          /\ RANGE_X_Z[1] * LenScale <= stars[i].px /\ stars[i].px <= RANGE_X_Z[2] * LenScale
          /\ RANGE_Y[1] * LenScale <= stars[i].py /\ stars[i].py <= RANGE_Y[2] * LenScale
          /\ RANGE_X_Z[1] * LenScale <= stars[i].pz /\ stars[i].pz <= RANGE_X_Z[2] * LenScale

\* C7: the materials of all bodies, the stars included, carry the same
\* wireframe flag.
C7_WireframeEverywhere ==
    /\ \A i \in BodyIdx : celestialBodies[i].wireframe = celestialBodies[SUN_IDX].wireframe
    /\ \A i \in DOMAIN stars : stars[i].wireframe = celestialBodies[SUN_IDX].wireframe

\* C8: in a frame with movement enabled the phase of a planet grows by
\* delta / bodyOrbitTime * planetSpeed and the phase of a moon by
\* delta / bodyOrbitTime * moonSpeed (both sides multiplied by the body's
\* orbit time), so a planet's step is proportional to Planets Speed alone
\* and a moon's to Moons Speed alone.
C8_PhaseStep ==
    [][(redraws' = redraws + 1 /\ sceneProps.showBodyMovement) =>
          \A i \in OrbitingIdx :
              LET b == celestialBodies[i]
                  step == celestialBodies'[i].angle - b.angle
                  speed == IF i \in MoonIdx THEN sceneProps.moonSpeed
                           ELSE sceneProps.planetSpeed
              IN  /\ step * AngleUnitNum(b.referenceOrbitTime) * SpeedScale
                         = delta * b.referenceOrbitTime * speed
                  /\ (i \in PlanetIdx /\ sceneProps.planetSpeed = 25 * SpeedScale)
                         => step = 5 * (5 * SpeedScale)]_vars

\* the second frame ran at planet speed 25 and moon speed 5
C8_Witness ==
    /\ redraws = 2
    /\ celestialBodies[MERCURY_IDX].angle = 50 + 250
    /\ celestialBodies[EARTH_MOON_IDX].angle = InitialBodies[EARTH_MOON_IDX].angle + 50 + 50

\* C9: once the page has loaded exactly one frame callback is pending, each
\* render() redraws once and leaves one callback pending, with movement
\* enabled or not, and the frames keep coming (up to the frame bound of the
\* model) whatever callbacks run in between.
C9_LoopNeverStops ==
    /\ [](pending <= 1 /\ (redraws >= 1 => pending = 1))
    /\ [][redraws' # redraws => (redraws' = redraws + 1 /\ pending' = 1)]_vars
    /\ (redraws < MaxFrames) ~> (redraws = MaxFrames)

\* a frame has run with movement disabled, after a control callback
C9_Witness ==
    /\ ~sceneProps.showBodyMovement
    /\ events >= 1
    /\ redraws >= 2
    /\ updatedAt[MERCURY_IDX] < redraws
    /\ pending = 1

\* C10: at every redraw each orbiting body is at
\* orbitedBody + orbitRadius * (cos angle, sin angle) in x and z for the
\* orbited body's position at that redraw, and its y is the one it was
\* created with (0 for a planet).
C10_OrbitInvariant ==
    redraws >= 1 =>
      LET created == InitialBodies
      IN  \A i \in OrbitingIdx :
            LET b == celestialBodies[i]
                o == celestialBodies[b.orbitedBody]
            IN  /\ b.px = (((MathCos(AngleCDeg(b)) * b.orbitRadius) + (TrigScale \div 2))
                               \div TrigScale) + o.px
                /\ b.pz = (((MathSin(AngleCDeg(b)) * b.orbitRadius) + (TrigScale \div 2))
                               \div TrigScale) + o.pz
                /\ b.py = created[i].py
                /\ i \in PlanetIdx => b.py = 0

\* frames with movement enabled and disabled have both been drawn
C10_Witness ==
    /\ redraws = 3
    /\ updatedAt[EARTH_MOON_IDX] = 2
    /\ sceneProps.moonSpeed = 100

====
